---- MODULE Spec2Model ----
(***************************************************************************)
(* BitbucketClient (src/src/client.ts): a wrapper around one axios         *)
(* instance.  The constructor fixes the instance defaults (base URL and    *)
(* headers); every public method builds a request from its parameters and  *)
(* the defaults, awaits the response and returns or throws.                *)
(*                                                                         *)
(* Strings are sequences of tokens (a token is an unsplit piece of text),  *)
(* so that concatenation, startsWith, includes and replace are computed.   *)
(* A JavaScript scalar is a record [t, s]: its type tag and its text.      *)
(***************************************************************************)
EXTENDS Integers, Sequences, FiniteSets, TLC

VARIABLES universe, config, client, calls

vars == <<universe, config, client, calls>>

(* ------------------------------ bounds -------------------------------- *)

MaxBaseUrlLen == 2
MaxBranchLen == 3
MaxMessageLen == 2
NCalls == 2

(* ------------------------- JavaScript values --------------------------- *)

Undefined == [t |-> "undefined", s |-> <<>>]
Str(s) == [t |-> "string", s |-> s]
Num(n) == [t |-> "number", s |-> <<n>>]
Bool(b) == [t |-> "boolean", s |-> <<b>>]
Arr(s) == [t |-> "array", s |-> s]

\* JavaScript truthiness of a scalar: undefined, '', 0 and false are falsy.
Truthy(v) ==
  CASE v.t = "undefined" -> FALSE
    [] v.t = "string" -> v.s # <<>>
    [] v.t = "number" -> v.s # <<"0">>
    [] v.t = "array" -> TRUE
    [] OTHER -> v.s = <<"true">>

\* `${v}` in a template literal.
Interpolate(v) == IF v.t = "undefined" THEN <<"undefined">> ELSE v.s

\* An object literal is a function from its keys; o.k of a missing key is undefined.
EmptyObject == [k \in {} |-> Undefined]
Prop(o, k) == IF k \in DOMAIN o THEN o[k] ELSE Undefined

\* { ...a, ...b }: the keys of both, b's value where both have the key.
Spread(a, b) ==
  [k \in DOMAIN a \cup DOMAIN b |-> IF k \in DOMAIN b THEN b[k] ELSE a[k]]

\* cond && { k: v } spread into an object literal: the pair when cond is truthy.
SpreadIf(cond, o) == IF cond THEN o ELSE EmptyObject

(* ------------------------------ strings -------------------------------- *)

SeqsUpTo(S, n) == UNION {[1..k -> S] : k \in 0..n}

\* String.prototype.startsWith
StartsWith(s, p) == Len(s) >= Len(p) /\ SubSeq(s, 1, Len(p)) = p

\* The first index at which p occurs in s, 0 when it does not occur.
IndexOf(s, p) ==
  LET hits == {i \in 1..(Len(s) - Len(p) + 1) : SubSeq(s, i, i + Len(p) - 1) = p}
  IN IF hits = {} THEN 0 ELSE CHOOSE i \in hits : \A j \in hits : i <= j

\* String.prototype.includes
Includes(s, p) == IndexOf(s, p) # 0

\* String.prototype.replace with a string pattern: the first occurrence only.
Replace(s, p, r) ==
  LET i == IndexOf(s, p)
  IN IF i = 0 THEN s
     ELSE SubSeq(s, 1, i - 1) \o r \o SubSeq(s, i + Len(p), Len(s))

RestApiLatest == <<"/rest", "/api/latest">>
Rest == <<"/rest">>

(* ---------------------------- constructor ------------------------------ *)

\* Constructor with the user's config spread last, over baseURL and headers.
ConstructorUserLast(cfg) ==
  [defaults |->
     Spread([baseURL |-> Str(cfg.baseUrl \o RestApiLatest),
             headers |-> [Authorization |-> Str(<<"Bearer ">> \o cfg.token)]],
            cfg.axiosConfig)]

\* new BitbucketClient({token, baseUrl, axiosConfig = {}}): axios.create of the
\* user's config with baseURL and headers replaced; the instance keeps it as its
\* defaults.
Constructor(cfg) ==
  LET axiosConfig == cfg.axiosConfig
      headers == Spread(IF "headers" \in DOMAIN axiosConfig
                        THEN axiosConfig.headers ELSE EmptyObject,
                        [k \in {"Authorization", "Content-Type"} |->
                           IF k = "Authorization"
                           THEN Str(<<"Bearer ">> \o cfg.token)
                           ELSE Str(<<"application/json">>)])
  IN [defaults |->
        Spread(axiosConfig,
               [baseURL |-> Str(cfg.baseUrl \o RestApiLatest), headers |-> headers])]

(* ------------------------- the axios instance -------------------------- *)

\* instance.request: the per-request config merged over the instance defaults
\* (headers key by key, baseURL and params from the request when it gives them).
Request(d, method, url, data, cfg) ==
  [method |-> method,
   url |-> url,
   baseURL |-> IF "baseURL" \in DOMAIN cfg THEN cfg.baseURL ELSE d.baseURL,
   params |-> IF "params" \in DOMAIN cfg THEN cfg.params ELSE EmptyObject,
   data |-> data,
   headers |-> Spread(d.headers,
                      IF "headers" \in DOMAIN cfg THEN cfg.headers ELSE EmptyObject)]

AxiosGet(d, url, cfg) == Request(d, "GET", url, Undefined, cfg)
AxiosDelete(d, url, cfg) == Request(d, "DELETE", url, Undefined, cfg)
AxiosPost(d, url, data, cfg) == Request(d, "POST", url, data, cfg)
AxiosPut(d, url, data, cfg) == Request(d, "PUT", url, data, cfg)

\* The query string axios serialises: the params with a defined value.
Query(req) ==
  [k \in {x \in DOMAIN req.params : req.params[x].t # "undefined"} |-> req.params[k]]

(* ------------------------- request construction ------------------------ *)
(* One operator per public method: the request the method hands to axios,  *)
(* from the instance defaults d and the method's parameter object a.       *)

RepoPath(a) ==
  <<"/projects/">> \o Interpolate(Prop(a, "projectKey"))
    \o <<"/repos/">> \o Interpolate(Prop(a, "repositorySlug"))

PullRequestPath(a) ==
  RepoPath(a) \o <<"/pull-requests/">> \o Interpolate(Prop(a, "pullRequestId"))

\* { k } shorthand: the object with the one key k bound to a's k.
Pick(a, k) == [x \in {k} |-> Prop(a, k)]

\* const { k1, ..., ...rest } = a: a without the keys ks.
Omit(a, ks) == [k \in DOMAIN a \ ks |-> a[k]]

\* A params object the caller may omit: spreading or passing undefined adds nothing.
ObjectOrEmpty(a) == IF a = Undefined THEN EmptyObject ELSE a

getUserProfileRequest(d, a) ==
  AxiosGet(d, <<"/users/">> \o Interpolate(Prop(a, "username")), EmptyObject)

getAllUsersRequest(d, a) ==
  AxiosGet(d, <<"/users">>,
           [params |-> IF Truthy(Prop(ObjectOrEmpty(a), "filter"))
                       THEN Pick(a, "filter") ELSE EmptyObject])

listProjectsRequest(d, a) ==
  AxiosGet(d, <<"/projects">>, [params |-> ObjectOrEmpty(a)])

listRepositoriesRequest(d, a) ==
  AxiosGet(d, <<"/projects/">> \o Interpolate(Prop(a, "projectKey")) \o <<"/repos">>,
           EmptyObject)

getRepositoryRequest(d, a) == AxiosGet(d, RepoPath(a), EmptyObject)

getInboxPullRequestsRequest(d, a) ==
  AxiosGet(d, <<"/inbox/pull-requests">>, [params |-> ObjectOrEmpty(a)])

\* getDashboardPullRequestsRequest with the defaults spread after the caller's params.
getDashboardPullRequestsRequestDefaultsLast(d, a) ==
  AxiosGet(d, <<"/dashboard/pull-requests">>,
           [params |-> Spread(ObjectOrEmpty(a),
                              [role |-> Str(<<"AUTHOR">>),
                               state |-> Str(<<"OPEN">>),
                               order |-> Str(<<"NEWEST">>)])])

getDashboardPullRequestsRequest(d, a) ==
  AxiosGet(d, <<"/dashboard/pull-requests">>,
           [params |-> Spread([role |-> Str(<<"AUTHOR">>),
                               state |-> Str(<<"OPEN">>),
                               order |-> Str(<<"NEWEST">>)],
                              ObjectOrEmpty(a))])

getPullRequestRequest(d, a) == AxiosGet(d, PullRequestPath(a), EmptyObject)

\* branch.startsWith('refs/') ? branch : `refs/heads/${branch}` (createPullRequest)
toRefId(branch) ==
  IF StartsWith(branch, <<"refs", "/">>) THEN branch
  ELSE <<"refs", "/", "heads", "/">> \o branch

\* toRefIdReviewers taking only refs/heads/ for fully qualified.
toRefIdHeadsOnly(branch) ==
  IF StartsWith(branch, <<"refs", "/", "heads", "/">>) THEN branch
  ELSE <<"refs", "/", "heads", "/">> \o branch

\* the same helper as getRequiredReviewers declares it
toRefIdReviewers(branch) ==
  IF StartsWith(branch, <<"refs", "/">>) THEN branch
  ELSE <<"refs", "/", "heads", "/">> \o branch

\* CreatePullRequestBody with the source repository always in the target project.
CreatePullRequestBodyTargetProject(a) ==
  LET fromRepositorySlug == Prop(a, "fromRepositorySlug")
      reviewers == Prop(a, "reviewers")
      fromRef ==
        Spread([id |-> Str(toRefId(Prop(a, "fromBranch").s))],
               SpreadIf(Truthy(fromRepositorySlug),
                        [repository |->
                           [slug |-> fromRepositorySlug,
                            project |-> [key |-> Prop(a, "projectKey")]]]))
  IN Spread(Spread(Spread(Spread(
       Pick(a, "title"),
       SpreadIf(Truthy(Prop(a, "description")), Pick(a, "description"))),
       [fromRef |-> fromRef, toRef |-> [id |-> Str(toRefId(Prop(a, "toBranch").s))]]),
       SpreadIf(Truthy(reviewers) /\ Len(reviewers.s) > 0,
                [reviewers |->
                   [i \in 1..Len(reviewers.s) |->
                      [user |-> [name |-> Str(<<reviewers.s[i]>>)]]]])),
       SpreadIf(Prop(a, "draft") # Undefined, Pick(a, "draft")))

CreatePullRequestBody(a) ==
  LET fromRepositorySlug == Prop(a, "fromRepositorySlug")
      fromProjectKey == Prop(a, "fromProjectKey")
      reviewers == Prop(a, "reviewers")
      fromRef ==
        Spread([id |-> Str(toRefId(Prop(a, "fromBranch").s))],
               SpreadIf(Truthy(fromRepositorySlug),
                        [repository |->
                           [slug |-> fromRepositorySlug,
                            project |->
                              [key |-> IF Truthy(fromProjectKey) THEN fromProjectKey
                                       ELSE Prop(a, "projectKey")]]]))
  IN Spread(Spread(Spread(Spread(
       Pick(a, "title"),
       SpreadIf(Truthy(Prop(a, "description")), Pick(a, "description"))),
       [fromRef |-> fromRef, toRef |-> [id |-> Str(toRefId(Prop(a, "toBranch").s))]]),
       SpreadIf(Truthy(reviewers) /\ Len(reviewers.s) > 0,
                [reviewers |->
                   [i \in 1..Len(reviewers.s) |->
                      [user |-> [name |-> Str(<<reviewers.s[i]>>)]]]])),
       SpreadIf(Prop(a, "draft") # Undefined, Pick(a, "draft")))

createPullRequestRequest(d, a) ==
  AxiosPost(d, RepoPath(a) \o <<"/pull-requests">>, CreatePullRequestBody(a), EmptyObject)

getPullRequestChangesRequest(d, a) ==
  AxiosGet(d, PullRequestPath(a) \o <<"/changes">>,
           [params |-> IF Truthy(Prop(a, "limit")) THEN Pick(a, "limit") ELSE EmptyObject])

getPullRequestFileDiffRequest(d, a) ==
  AxiosGet(d, PullRequestPath(a) \o <<"/diff/">> \o Interpolate(Prop(a, "path")),
           [params |-> IF Truthy(Prop(a, "contextLines"))
                       THEN Pick(a, "contextLines") ELSE EmptyObject])

\* path || ''
OrEmpty(v) == IF Truthy(v) THEN v ELSE Str(<<>>)

\* getPullRequestDiffRequest without the || '' on path.
getPullRequestDiffRequestPathAsIs(d, a) ==
  LET format == IF Prop(a, "format") = Undefined THEN Str(<<"text">>) ELSE a.format
  IN AxiosGet(d,
              PullRequestPath(a) \o <<"/diff/">> \o Interpolate(Prop(a, "path")),
              [params |-> SpreadIf(Prop(a, "contextLines") # Undefined,
                                   Pick(a, "contextLines")),
               headers |-> [Accept |-> IF format = Str(<<"text">>)
                                       THEN Str(<<"text/plain">>)
                                       ELSE Str(<<"application/json">>)]])

getPullRequestDiffRequest(d, a) ==
  LET format == IF Prop(a, "format") = Undefined THEN Str(<<"text">>) ELSE a.format
      queryParams ==
        Spread(Spread(Spread(
          SpreadIf(Truthy(Prop(a, "sinceId")), Pick(a, "sinceId")),
          SpreadIf(Truthy(Prop(a, "untilId")), Pick(a, "untilId"))),
          SpreadIf(Prop(a, "contextLines") # Undefined, Pick(a, "contextLines"))),
          SpreadIf(Truthy(Prop(a, "whitespace")), Pick(a, "whitespace")))
  IN AxiosGet(d,
              PullRequestPath(a) \o <<"/diff/">> \o Interpolate(OrEmpty(Prop(a, "path"))),
              [params |-> queryParams,
               headers |-> [Accept |-> IF format = Str(<<"text">>)
                                       THEN Str(<<"text/plain">>)
                                       ELSE Str(<<"application/json">>)]])

getPullRequestActivitiesRequest(d, a) ==
  AxiosGet(d, PullRequestPath(a) \o <<"/activities">>,
           [params |-> Omit(a, {"projectKey", "repositorySlug", "pullRequestId"})])

\* AddCommentBody with line tested for truthiness, like lineType and fileType.
AddCommentBodyLineTruthy(a) ==
  LET anchor ==
        Spread(Spread(Spread(
          [path |-> Prop(a, "path"), diffType |-> Str(<<"EFFECTIVE">>)],
          SpreadIf(Truthy(Prop(a, "line")), Pick(a, "line"))),
          SpreadIf(Truthy(Prop(a, "lineType")), Pick(a, "lineType"))),
          SpreadIf(Truthy(Prop(a, "fileType")), Pick(a, "fileType")))
  IN Spread(Spread(
       Pick(a, "text"),
       SpreadIf(Truthy(Prop(a, "parentId")), [parent |-> [id |-> Prop(a, "parentId")]])),
       SpreadIf(Truthy(Prop(a, "path")), [anchor |-> anchor]))

AddCommentBody(a) ==
  LET anchor ==
        Spread(Spread(Spread(
          [path |-> Prop(a, "path"), diffType |-> Str(<<"EFFECTIVE">>)],
          SpreadIf(Prop(a, "line") # Undefined, Pick(a, "line"))),
          SpreadIf(Truthy(Prop(a, "lineType")), Pick(a, "lineType"))),
          SpreadIf(Truthy(Prop(a, "fileType")), Pick(a, "fileType")))
  IN Spread(Spread(
       Pick(a, "text"),
       SpreadIf(Truthy(Prop(a, "parentId")), [parent |-> [id |-> Prop(a, "parentId")]])),
       SpreadIf(Truthy(Prop(a, "path")), [anchor |-> anchor]))

addPullRequestCommentRequest(d, a) ==
  AxiosPost(d, PullRequestPath(a) \o <<"/comments">>, AddCommentBody(a), EmptyObject)

deletePullRequestCommentRequest(d, a) ==
  AxiosDelete(d, PullRequestPath(a) \o <<"/comments/">> \o Interpolate(Prop(a, "commentId")),
              [params |-> Pick(a, "version")])

\* updateReviewStatus, first request: the lookup of the authenticated user.
applicationPropertiesRequest(d) == AxiosGet(d, <<"/application-properties">>, EmptyObject)

\* participantsRequest reading the user from the lookup's body, not its header.
participantsRequestFromBody(d, a, propertiesResponse) ==
  AxiosPut(d, PullRequestPath(a) \o <<"/participants/">>
                \o Interpolate(propertiesResponse.data),
           Pick(a, "status"), EmptyObject)

\* updateReviewStatus, second request; propertiesResponse is the lookup's response.
participantsRequest(d, a, propertiesResponse) ==
  LET userSlug == Prop(propertiesResponse.headers, "x-ausername")
  IN AxiosPut(d, PullRequestPath(a) \o <<"/participants/">> \o Interpolate(userSlug),
              Pick(a, "status"), EmptyObject)

\* this.client.defaults.baseURL?.replace('/rest/api/latest', '/rest')
PluginBaseURL(d) == Str(Replace(d.baseURL.s, RestApiLatest, Rest))

ReactionPath(a) ==
  <<"/comment-likes/latest">> \o PullRequestPath(a)
    \o <<"/comments/">> \o Interpolate(Prop(a, "commentId"))
    \o <<"/reactions/">> \o Interpolate(Prop(a, "emoticon"))

addPullRequestCommentReactionRequest(d, a) ==
  AxiosPut(d, ReactionPath(a), EmptyObject, [baseURL |-> PluginBaseURL(d)])

removePullRequestCommentReactionRequest(d, a) ==
  AxiosDelete(d, ReactionPath(a), [baseURL |-> PluginBaseURL(d)])

getRequiredReviewersRequest(d, a) ==
  AxiosGet(d, <<"/default-reviewers/latest">> \o RepoPath(a) \o <<"/reviewers">>,
           [params |->
              [sourceRepoId |-> Prop(a, "repositoryId"),
               targetRepoId |-> Prop(a, "repositoryId"),
               sourceRefId |-> Str(toRefIdReviewers(Prop(a, "sourceBranch").s)),
               targetRefId |-> Str(toRefIdReviewers(Prop(a, "targetBranch").s))],
            baseURL |-> PluginBaseURL(d)])

browseRequest(d, a) ==
  AxiosGet(d, RepoPath(a) \o <<"/browse/">> \o Interpolate(OrEmpty(Prop(a, "path"))),
           [params |->
              Spread(Spread(
                SpreadIf(Truthy(Prop(a, "at")), Pick(a, "at")),
                SpreadIf(Prop(a, "limit") # Undefined, Pick(a, "limit"))),
                SpreadIf(Prop(a, "start") # Undefined, Pick(a, "start")))])

getRawContentRequest(d, a) ==
  AxiosGet(d, RepoPath(a) \o <<"/raw/">> \o Interpolate(Prop(a, "path")),
           [params |-> SpreadIf(Truthy(Prop(a, "at")), Pick(a, "at")),
            headers |-> [Accept |-> Str(<<"text/plain">>)]])

\* checkRepositoryPermissions, first request: the read check.
readCheckRequest(d, a) == AxiosGet(d, RepoPath(a), EmptyObject)

\* checkRepositoryPermissions, second request: the write probe.
writeProbeRequest(d, a) == AxiosPost(d, RepoPath(a) \o <<"/branches">>, EmptyObject, EmptyObject)

(* ------------------------------ responses ------------------------------ *)
(* What a request settles with.  A success carries data and headers.  A    *)
(* failure is the axios error: errors tells how far                        *)
(* error.response?.data?.errors?.[0]?.message reaches ("noResponse" for a  *)
(* transport error), message is that message when it is there.             *)

Success(headers) ==
  [ok |-> TRUE, status |-> "200", headers |-> headers, data |-> Str(<<"body">>),
   errors |-> "none", message |-> <<>>]

Failure(status, errors, message) ==
  [ok |-> FALSE, status |-> status, headers |-> EmptyObject, data |-> Undefined,
   errors |-> errors, message |-> message]

NetworkError == Failure("network", "noResponse", <<>>)

(* ------------------------------ universes ------------------------------ *)
(* The inputs the environment draws from: constructor configurations,      *)
(* method parameters and server responses.                                 *)

Tokens == {<<"T1">>, <<"T2">>}

\* An origin followed by up to MaxBaseUrlLen path pieces.
BaseUrlTokens == {"/bitbucket", "/rest", "/api/latest"}
BaseUrls == {<<"https://h">> \o p : p \in SeqsUpTo(BaseUrlTokens, MaxBaseUrlLen)}

\* Objects with each key of vs either absent or bound to one of vs[k].
OptionalOf(vs) ==
  {o \in UNION {[ks -> UNION {vs[k] : k \in ks}] : ks \in SUBSET DOMAIN vs} :
     \A k \in DOMAIN o : o[k] \in vs[k]}

\* The headers a user may put in axiosConfig.
UserHeaders ==
  OptionalOf([k \in {"Authorization", "Content-Type", "X-Custom-Header"} |->
                IF k = "Authorization" THEN {Str(<<"Basic ">>)}
                ELSE IF k = "Content-Type" THEN {Str(<<"text/xml">>)}
                ELSE {Str(<<"value">>)}])

\* axiosConfig omitted, or with any of headers, baseURL and timeout.
AxiosConfigs ==
  {Spread(h, o) :
     h \in {EmptyObject} \cup {[headers |-> u] : u \in UserHeaders},
     o \in {EmptyObject, [baseURL |-> Str(<<"https://other">>)],
            [baseURL |-> Str(<<"https://other">>), timeout |-> Num("10000")]}}

Configs(tokens, baseUrls, axiosConfigs) ==
  [token : tokens, baseUrl : baseUrls, axiosConfig : axiosConfigs]

ConfigsWide == Configs(Tokens, BaseUrls, AxiosConfigs)
ConfigsNarrow ==
  Configs(Tokens, {<<"https://h">>},
          {EmptyObject, [timeout |-> Num("10000"),
                         headers |-> [k \in {"X-Custom-Header"} |-> Str(<<"value">>)]]})

BranchTokens == {"refs", "/", "heads", "main"}
Branches == SeqsUpTo(BranchTokens, MaxBranchLen)
FewBranches == {<<"main">>, <<"refs", "/", "heads", "/", "main">>}

MessageTokens == {"name", "required", "denied"}
Messages == SeqsUpTo(MessageTokens, MaxMessageLen) \ {<<>>}

\* A request to the write probe fails as a validation (400) or an authorization
\* (401, 403) response, or in transport.
ProbeFailures(messages) ==
  {NetworkError}
    \cup {Failure(st, e, <<>>) :
            st \in {"400", "401", "403"},
            e \in {"noData", "noErrors", "emptyErrors", "noMessage"}}
    \cup {Failure(st, "message", m) : st \in {"400", "401", "403"}, m \in messages}

Failures == {NetworkError, Failure("404", "message", <<"denied">>),
             Failure("500", "noData", <<>>)}

LookupHeaders ==
  {EmptyObject} \cup {[k \in {"x-ausername"} |-> Str(<<u>>)] : u \in {"john.doe", "jane"}}

Repo == [projectKey |-> Str(<<"PROJ">>), repositorySlug |-> Str(<<"my-repo">>)]
PullRequest == Spread(Repo, [pullRequestId |-> Num("123")])
Comment == Spread(PullRequest, [commentId |-> Num("7")])

CreatePullRequestArgs(pairs) ==
  {Spread(Spread(Repo, [title |-> Str(<<"Add">>), fromBranch |-> Str(p[1]),
                         toBranch |-> Str(p[2])]), o) :
     p \in pairs,
     o \in OptionalOf([fromRepositorySlug |-> {Str(<<"my-fork">>)},
                       fromProjectKey |-> {Str(<<"MYPROJ">>)}])}

\* createPullRequest with the source repository and project omitted, empty or named.
CrossRepoArgs(pairs) ==
  {Spread(Spread(Repo, [title |-> Str(<<"Add">>), fromBranch |-> Str(p[1]),
                         toBranch |-> Str(p[2])]), o) :
     p \in pairs,
     o \in OptionalOf([fromRepositorySlug |-> {Str(<<>>), Str(<<"my-fork">>)},
                       fromProjectKey |-> {Str(<<>>), Str(<<"MYPROJ">>)}])}

RequiredReviewersArgs(pairs) ==
  {Spread(Repo, [repositoryId |-> Num("42"), sourceBranch |-> Str(p[1]),
                 targetBranch |-> Str(p[2])]) : p \in pairs}

\* The parameters of every method with one choice each, except where a
\* claim's cases need more.
ArgsNarrow ==
  [getUserProfile |-> {[username |-> Str(<<"john.doe">>)]},
   getAllUsers |-> {Undefined},
   listProjects |-> {[limit |-> Num("10")]},
   listRepositories |-> {Repo},
   getRepository |-> {Repo},
   getInboxPullRequests |-> {Undefined},
   getDashboardPullRequests |-> {Undefined},
   getPullRequest |-> {PullRequest},
   createPullRequest |-> CreatePullRequestArgs({<<<<"main">>, <<"main">>>>}),
   getPullRequestChanges |-> {PullRequest},
   getPullRequestFileDiff |-> {Spread(PullRequest, [path |-> Str(<<"src/index.ts">>)])},
   getPullRequestDiff |-> {PullRequest},
   getPullRequestActivities |-> {PullRequest},
   addPullRequestComment |-> {Spread(PullRequest, [text |-> Str(<<"LGTM">>)])},
   deletePullRequestComment |-> {Spread(Comment, [version |-> Num("0")])},
   updateReviewStatus |-> {Spread(PullRequest, [status |-> Str(<<"APPROVED">>)])},
   addPullRequestCommentReaction |-> {Spread(Comment, [emoticon |-> Str(<<"thumbsup">>)])},
   removePullRequestCommentReaction |-> {Spread(Comment, [emoticon |-> Str(<<"thumbsup">>)])},
   getRequiredReviewers |-> RequiredReviewersArgs({<<<<"main">>, <<"main">>>>}),
   browse |-> {Repo},
   getRawContent |-> {Spread(Repo, [path |-> Str(<<"package.json">>)])},
   checkRepositoryPermissions |-> {Repo}]

ArgsFull ==
  [ArgsNarrow EXCEPT
     !.getAllUsers = {Undefined} \cup OptionalOf([filter |-> {Str(<<>>), Str(<<"jo">>)}]),
     !.listProjects = {Undefined} \cup OptionalOf([limit |-> {Num("10")},
                                                   name |-> {Str(<<"x">>)}]),
     !.getInboxPullRequests =
        {Undefined} \cup OptionalOf([limit |-> {Num("0"), Num("25")}, start |-> {Num("0")}]),
     !.getDashboardPullRequests =
        {Undefined} \cup OptionalOf([role |-> {Undefined, Str(<<"REVIEWER">>)},
                                     state |-> {Str(<<"MERGED">>)},
                                     order |-> {Str(<<"OLDEST">>)},
                                     limit |-> {Num("25")}]),
     !.createPullRequest = CrossRepoArgs(FewBranches \X FewBranches),
     !.getPullRequestChanges =
        {Spread(PullRequest, o) : o \in OptionalOf([limit |-> {Num("0"), Num("25")}])},
     !.getPullRequestFileDiff =
        {Spread(Spread(PullRequest, [path |-> Str(<<"src/index.ts">>)]), o) :
           o \in OptionalOf([contextLines |-> {Num("0"), Num("3")}])},
     !.getPullRequestDiff =
        {Spread(PullRequest, o) :
           o \in OptionalOf([path |-> {Str(<<>>), Str(<<"src/index.ts">>)},
                             format |-> {Str(<<"text">>), Str(<<"json">>)},
                             contextLines |-> {Num("0"), Num("3")}])
                   \cup OptionalOf([sinceId |-> {Str(<<"abc123">>)},
                                    untilId |-> {Str(<<"def456">>)},
                                    whitespace |-> {Str(<<"ignore-all">>)}])},
     !.getPullRequestActivities =
        {Spread(PullRequest, o) :
           o \in OptionalOf([limit |-> {Num("25")}, start |-> {Num("0")}])},
     !.addPullRequestComment =
        {Spread(Spread(PullRequest, [text |-> Str(<<"LGTM">>)]), o) :
           o \in OptionalOf([parentId |-> {Num("0"), Num("5")},
                             path |-> {Str(<<>>), Str(<<"src/index.ts">>)},
                             line |-> {Num("0"), Num("42")},
                             lineType |-> {Str(<<"ADDED">>)},
                             fileType |-> {Str(<<"TO">>)}])},
     !.browse =
        {Spread(Repo, o) :
           o \in OptionalOf([at |-> {Str(<<>>), Str(<<"main">>)},
                             limit |-> {Num("0"), Num("25")},
                             start |-> {Num("0")}])},
     !.updateReviewStatus =
        {Spread(PullRequest, [status |-> Str(<<st>>)]) : st \in {"APPROVED", "NEEDS_WORK"}},
     !.getRequiredReviewers = RequiredReviewersArgs(FewBranches \X FewBranches)]

\* Every branch name up to the bound, on either side.
BranchPairs == {<<b, <<"main">>>> : b \in Branches} \cup {<<<<"main">>, b>> : b \in Branches}

ArgsBranches ==
  [ArgsNarrow EXCEPT
     !.createPullRequest =
        {Spread(Repo, [title |-> Str(<<"Add">>), fromBranch |-> Str(p[1]),
                       toBranch |-> Str(p[2])]) : p \in BranchPairs},
     !.getRequiredReviewers = RequiredReviewersArgs(BranchPairs)]

InputsOf(args, messages) ==
  [args |-> args, lookupHeaders |-> LookupHeaders, failures |-> Failures,
   probeFailures |-> ProbeFailures(messages)]

Full == InputsOf(ArgsFull, Messages)
Narrow == InputsOf(ArgsNarrow, {<<"name", "required">>, <<"denied">>})
Refs == InputsOf(ArgsBranches, {<<"name", "required">>, <<"denied">>})

\* One choice of parameters per method and the fewest responses that take every
\* branch of every method.
Few ==
  [args |-> [ArgsNarrow EXCEPT
               !.createPullRequest =
                  {Spread(Repo, [title |-> Str(<<"Add">>), fromBranch |-> Str(<<"main">>),
                                 toBranch |-> Str(<<"main">>)])}],
   lookupHeaders |-> {EmptyObject, [k \in {"x-ausername"} |-> Str(<<"john.doe">>)]},
   failures |-> {NetworkError},
   probeFailures |-> {NetworkError, Failure("400", "message", <<"name", "required">>),
                      Failure("403", "message", <<"denied">>)}]

\* The inputs of the run: universe names them, and no action changes it.
Universe ==
  CASE universe = "full" -> Full
    [] universe = "narrow" -> Narrow
    [] universe = "refs" -> Refs
    [] OTHER -> Few

IsLookup(req) == req.url = <<"/application-properties">>
IsProbe(req) == req.method = "POST" /\ req.url[Len(req.url)] = "/branches"

\* The responses the server side may give to req.
Responses(req) ==
  {Success(h) : h \in IF IsLookup(req) THEN Universe.lookupHeaders ELSE {EmptyObject}}
    \cup (IF IsProbe(req) THEN Universe.probeFailures ELSE Universe.failures)

(* ------------------------------- calls --------------------------------- *)
(* A call is one invocation of a public method: pc is "idle" before it,    *)
(* "await" while a request is in flight and "done" once it settled; reqs   *)
(* are the requests it issued, resps what they settled with, outcome what  *)
(* the caller gets.                                                        *)

NoOutcome == [kind |-> "none", value |-> Undefined]
Idle ==
  [pc |-> "idle", method |-> "", args |-> EmptyObject, reqs |-> <<>>, resps |-> <<>>,
   outcome |-> NoOutcome]

\* Call with the request's base URL stored in the instance defaults.
CallSettingDefaults(c, m, a, req) ==
  /\ c \in DOMAIN calls
  /\ calls[c].pc = "idle"
  /\ calls' = [calls EXCEPT ![c] = [Idle EXCEPT !.pc = "await", !.method = m,
                                                !.args = a, !.reqs = <<req>>]]
  /\ client' = [client EXCEPT !.defaults.baseURL = req.baseURL]
  /\ UNCHANGED <<universe, config>>

\* The method runs to its first await: it issues req.
Call(c, m, a, req) ==
  /\ c \in DOMAIN calls
  /\ calls[c].pc = "idle"
  /\ calls' = [calls EXCEPT ![c] = [Idle EXCEPT !.pc = "await", !.method = m,
                                                !.args = a, !.reqs = <<req>>]]
  /\ UNCHANGED <<universe, config, client>>

\* Call c of m(a) awaits its n-th request.
Awaiting(c, m, a, n) ==
  /\ c \in DOMAIN calls
  /\ calls[c].pc = "await"
  /\ calls[c].method = m
  /\ calls[c].args = a
  /\ Len(calls[c].reqs) = n

\* The awaited request settled with r and the method returns v.
Return(c, r, v) ==
  /\ calls' = [calls EXCEPT ![c].pc = "done", ![c].resps = Append(@, r),
                            ![c].outcome = [kind |-> "return", value |-> v]]
  /\ UNCHANGED <<universe, config, client>>

\* Throw with the failure caught and turned into a normal return of nothing.
ThrowSwallowed(c, r) ==
  /\ calls' = [calls EXCEPT ![c].pc = "done", ![c].resps = Append(@, r),
                            ![c].outcome = [kind |-> "return", value |-> Undefined]]
  /\ UNCHANGED <<universe, config, client>>

\* The awaited request failed with r and nothing catches it: the call rejects with r.
Throw(c, r) ==
  /\ calls' = [calls EXCEPT ![c].pc = "done", ![c].resps = Append(@, r),
                            ![c].outcome = [kind |-> "throw", value |-> r]]
  /\ UNCHANGED <<universe, config, client>>

\* The awaited request settled with r and the method goes on to issue req.
Continue(c, r, req) ==
  /\ calls' = [calls EXCEPT ![c].resps = Append(@, r), ![c].reqs = Append(@, req)]
  /\ UNCHANGED <<universe, config, client>>

\* ReturnData with a failed request issued once more.
ReturnDataRetrying(c, m, a) ==
  /\ Awaiting(c, m, a, 1)
  /\ \E r \in Responses(calls[c].reqs[1]) :
       IF r.ok THEN Return(c, r, r.data) ELSE Continue(c, r, calls[c].reqs[1])

\* const response = await this.client.<verb>(...); return response.data
ReturnData(c, m, a) ==
  /\ Awaiting(c, m, a, 1)
  /\ \E r \in Responses(calls[c].reqs[1]) :
       IF r.ok THEN Return(c, r, r.data) ELSE Throw(c, r)

\* await this.client.<verb>(...) in a method that returns nothing
ReturnVoid(c, m, a) ==
  /\ Awaiting(c, m, a, 1)
  /\ \E r \in Responses(calls[c].reqs[1]) :
       IF r.ok THEN Return(c, r, Undefined) ELSE Throw(c, r)

(* --------------------------- public methods ---------------------------- *)
(* Each action is one step of call c of the method with parameters a: the  *)
(* call up to its first await, or its resumption when a request settles.   *)

getUserProfile(c, a) ==
  \/ Call(c, "getUserProfile", a, getUserProfileRequest(client.defaults, a))
  \/ ReturnData(c, "getUserProfile", a)

getAllUsers(c, a) ==
  \/ Call(c, "getAllUsers", a, getAllUsersRequest(client.defaults, a))
  \/ ReturnData(c, "getAllUsers", a)

listProjects(c, a) ==
  \/ Call(c, "listProjects", a, listProjectsRequest(client.defaults, a))
  \/ ReturnData(c, "listProjects", a)

listRepositories(c, a) ==
  \/ Call(c, "listRepositories", a, listRepositoriesRequest(client.defaults, a))
  \/ ReturnData(c, "listRepositories", a)

getRepository(c, a) ==
  \/ Call(c, "getRepository", a, getRepositoryRequest(client.defaults, a))
  \/ ReturnData(c, "getRepository", a)

getInboxPullRequests(c, a) ==
  \/ Call(c, "getInboxPullRequests", a, getInboxPullRequestsRequest(client.defaults, a))
  \/ ReturnData(c, "getInboxPullRequests", a)

getDashboardPullRequests(c, a) ==
  \/ Call(c, "getDashboardPullRequests", a,
          getDashboardPullRequestsRequest(client.defaults, a))
  \/ ReturnData(c, "getDashboardPullRequests", a)

getPullRequest(c, a) ==
  \/ Call(c, "getPullRequest", a, getPullRequestRequest(client.defaults, a))
  \/ ReturnData(c, "getPullRequest", a)

createPullRequest(c, a) ==
  \/ Call(c, "createPullRequest", a, createPullRequestRequest(client.defaults, a))
  \/ ReturnData(c, "createPullRequest", a)

getPullRequestChanges(c, a) ==
  \/ Call(c, "getPullRequestChanges", a, getPullRequestChangesRequest(client.defaults, a))
  \/ ReturnData(c, "getPullRequestChanges", a)

getPullRequestFileDiff(c, a) ==
  \/ Call(c, "getPullRequestFileDiff", a, getPullRequestFileDiffRequest(client.defaults, a))
  \/ ReturnData(c, "getPullRequestFileDiff", a)

getPullRequestDiff(c, a) ==
  \/ Call(c, "getPullRequestDiff", a, getPullRequestDiffRequest(client.defaults, a))
  \/ ReturnData(c, "getPullRequestDiff", a)

getPullRequestActivities(c, a) ==
  \/ Call(c, "getPullRequestActivities", a,
          getPullRequestActivitiesRequest(client.defaults, a))
  \/ ReturnData(c, "getPullRequestActivities", a)

addPullRequestComment(c, a) ==
  \/ Call(c, "addPullRequestComment", a, addPullRequestCommentRequest(client.defaults, a))
  \/ ReturnData(c, "addPullRequestComment", a)

deletePullRequestComment(c, a) ==
  \/ Call(c, "deletePullRequestComment", a,
          deletePullRequestCommentRequest(client.defaults, a))
  \/ ReturnVoid(c, "deletePullRequestComment", a)

updateReviewStatus(c, a) ==
  \/ Call(c, "updateReviewStatus", a, applicationPropertiesRequest(client.defaults))
  \/ /\ Awaiting(c, "updateReviewStatus", a, 1)
     /\ \E propertiesResponse \in Responses(calls[c].reqs[1]) :
          IF propertiesResponse.ok
          THEN Continue(c, propertiesResponse,
                        participantsRequest(client.defaults, a, propertiesResponse))
          ELSE Throw(c, propertiesResponse)
  \/ /\ Awaiting(c, "updateReviewStatus", a, 2)
     /\ \E response \in Responses(calls[c].reqs[2]) :
          IF response.ok THEN Return(c, response, response.data) ELSE Throw(c, response)

addPullRequestCommentReaction(c, a) ==
  \/ Call(c, "addPullRequestCommentReaction", a,
          addPullRequestCommentReactionRequest(client.defaults, a))
  \/ ReturnData(c, "addPullRequestCommentReaction", a)

removePullRequestCommentReaction(c, a) ==
  \/ Call(c, "removePullRequestCommentReaction", a,
          removePullRequestCommentReactionRequest(client.defaults, a))
  \/ ReturnVoid(c, "removePullRequestCommentReaction", a)

getRequiredReviewers(c, a) ==
  \/ Call(c, "getRequiredReviewers", a, getRequiredReviewersRequest(client.defaults, a))
  \/ ReturnData(c, "getRequiredReviewers", a)

browse(c, a) ==
  \/ Call(c, "browse", a, browseRequest(client.defaults, a))
  \/ ReturnData(c, "browse", a)

getRawContent(c, a) ==
  \/ Call(c, "getRawContent", a, getRawContentRequest(client.defaults, a))
  \/ ReturnData(c, "getRawContent", a)

\* error.response?.data?.errors?.[0]?.message || ''
ErrorMessage(error) == IF error.errors = "message" THEN error.message ELSE <<>>

\* message.includes('name') && message.includes('required')
WriteFromError(error) ==
  LET message == ErrorMessage(error)
  IN Includes(message, <<"name">>) /\ Includes(message, <<"required">>)

\* Permissions with the two fields exchanged.
PermissionsSwapped(read, write) == [read |-> write, write |-> read]

Permissions(read, write) == [read |-> read, write |-> write]

\* checkRepositoryPermissions without the early return of the read check's catch.
checkRepositoryPermissionsProbeAlways(c, a) ==
  \/ Call(c, "checkRepositoryPermissions", a, readCheckRequest(client.defaults, a))
  \/ /\ Awaiting(c, "checkRepositoryPermissions", a, 1)
     /\ \E r \in Responses(calls[c].reqs[1]) :
          Continue(c, r, writeProbeRequest(client.defaults, a))
  \/ /\ Awaiting(c, "checkRepositoryPermissions", a, 2)
     /\ \E r \in Responses(calls[c].reqs[2]) :
          IF r.ok
          THEN Return(c, r, Permissions(calls[c].resps[1].ok, TRUE))
          ELSE Return(c, r, Permissions(calls[c].resps[1].ok, WriteFromError(r)))

\* checkRepositoryPermissions without the try/catch around the write probe.
checkRepositoryPermissionsUncaughtProbe(c, a) ==
  \/ Call(c, "checkRepositoryPermissions", a, readCheckRequest(client.defaults, a))
  \/ /\ Awaiting(c, "checkRepositoryPermissions", a, 1)
     /\ \E r \in Responses(calls[c].reqs[1]) :
          IF r.ok
          THEN Continue(c, r, writeProbeRequest(client.defaults, a))
          ELSE Return(c, r, Permissions(FALSE, FALSE))
  \/ /\ Awaiting(c, "checkRepositoryPermissions", a, 2)
     /\ \E r \in Responses(calls[c].reqs[2]) :
          IF r.ok THEN Return(c, r, Permissions(TRUE, TRUE)) ELSE Throw(c, r)

checkRepositoryPermissions(c, a) ==
  \/ Call(c, "checkRepositoryPermissions", a, readCheckRequest(client.defaults, a))
  \/ /\ Awaiting(c, "checkRepositoryPermissions", a, 1)
     /\ \E r \in Responses(calls[c].reqs[1]) :
          IF r.ok
          THEN Continue(c, r, writeProbeRequest(client.defaults, a))
          ELSE Return(c, r, Permissions(FALSE, FALSE))
  \/ /\ Awaiting(c, "checkRepositoryPermissions", a, 2)
     /\ \E r \in Responses(calls[c].reqs[2]) :
          IF r.ok
          THEN Return(c, r, Permissions(TRUE, TRUE))
          ELSE Return(c, r, Permissions(TRUE, WriteFromError(r)))

(* --------------------------- specifications ---------------------------- *)

\* The state after construction of a client, with n call slots.
InitWith(u, configs, n) ==
  /\ universe = u
  /\ config \in configs
  /\ client = Constructor(config)
  /\ calls = [c \in 1..n |-> Idle]

Next ==
  \E c \in 1..NCalls :
    \/ \E a \in Universe.args.getUserProfile : getUserProfile(c, a)
    \/ \E a \in Universe.args.getAllUsers : getAllUsers(c, a)
    \/ \E a \in Universe.args.listProjects : listProjects(c, a)
    \/ \E a \in Universe.args.listRepositories : listRepositories(c, a)
    \/ \E a \in Universe.args.getRepository : getRepository(c, a)
    \/ \E a \in Universe.args.getInboxPullRequests : getInboxPullRequests(c, a)
    \/ \E a \in Universe.args.getDashboardPullRequests : getDashboardPullRequests(c, a)
    \/ \E a \in Universe.args.getPullRequest : getPullRequest(c, a)
    \/ \E a \in Universe.args.createPullRequest : createPullRequest(c, a)
    \/ \E a \in Universe.args.getPullRequestChanges : getPullRequestChanges(c, a)
    \/ \E a \in Universe.args.getPullRequestFileDiff : getPullRequestFileDiff(c, a)
    \/ \E a \in Universe.args.getPullRequestDiff : getPullRequestDiff(c, a)
    \/ \E a \in Universe.args.getPullRequestActivities : getPullRequestActivities(c, a)
    \/ \E a \in Universe.args.addPullRequestComment : addPullRequestComment(c, a)
    \/ \E a \in Universe.args.deletePullRequestComment : deletePullRequestComment(c, a)
    \/ \E a \in Universe.args.updateReviewStatus : updateReviewStatus(c, a)
    \/ \E a \in Universe.args.addPullRequestCommentReaction : addPullRequestCommentReaction(c, a)
    \/ \E a \in Universe.args.removePullRequestCommentReaction : removePullRequestCommentReaction(c, a)
    \/ \E a \in Universe.args.getRequiredReviewers : getRequiredReviewers(c, a)
    \/ \E a \in Universe.args.browse : browse(c, a)
    \/ \E a \in Universe.args.getRawContent : getRawContent(c, a)
    \/ \E a \in Universe.args.checkRepositoryPermissions : checkRepositoryPermissions(c, a)

Init == InitWith("full", ConfigsNarrow, 1)
Spec == Init /\ [][Next]_vars

\* Every constructor configuration, one call at a time.
InitConfig == InitWith("narrow", ConfigsWide, 1)
SpecConfig == InitConfig /\ [][Next]_vars

\* Every branch name, one call at a time.
InitRefs == InitWith("refs", ConfigsNarrow, 1)
SpecRefs == InitRefs /\ [][Next]_vars

\* NCalls calls in flight on one client, interleaved at their awaits.
InitConcurrent ==
  InitWith("few",
           Configs({<<"T1">>}, {<<"https://h", "/bitbucket">>}, {EmptyObject}),
           NCalls)
SpecConcurrent == InitConcurrent /\ [][Next]_vars

(* ------------------------------- claims -------------------------------- *)

Started == {c \in DOMAIN calls : calls[c].pc # "idle"}
Finished == {c \in DOMAIN calls : calls[c].pc = "done"}
FailedRequests(c) == {i \in 1..Len(calls[c].resps) : ~calls[c].resps[i].ok}
Threw(c, r) == calls[c].outcome.kind = "throw" /\ calls[c].outcome.value = r

TwoRequestMethods == {"updateReviewStatus", "checkRepositoryPermissions"}

C2_RequestCount ==
  \A c \in Started :
    IF calls[c].method \in TwoRequestMethods
    THEN Len(calls[c].reqs) \in {1, 2}
    ELSE Len(calls[c].reqs) = 1

\* C2 witness: a one-request method finished with its request failed.
C2_Witness ==
  \E c \in Finished :
    /\ calls[c].method = "createPullRequest"
    /\ FailedRequests(c) = {1}
    /\ Len(calls[c].reqs) = 1

IsValidation(r) == ~r.ok /\ r.status = "400" /\ r.errors = "message"
IsAuthorization(r) == ~r.ok /\ r.status \in {"401", "403"}

ProbeSettled(c) ==
  /\ calls[c].method = "checkRepositoryPermissions"
  /\ Len(calls[c].resps) = 2
  /\ calls[c].resps[1].ok

\* C3 as claimed: after a successful read check, a probe that fails with a
\* validation response gives {read: true, write: true} and one that fails with
\* an authorization response gives {read: true, write: false}, whatever the payload.
C3_ProbeClassifiesEveryPayload ==
  \A c \in Finished :
    ProbeSettled(c) =>
      /\ IsValidation(calls[c].resps[2]) =>
           calls[c].outcome.value = Permissions(TRUE, TRUE)
      /\ IsAuthorization(calls[c].resps[2]) =>
           calls[c].outcome.value = Permissions(TRUE, FALSE)

Mutating == {"POST", "PUT", "DELETE"}

\* C4 as claimed: no request of a call of checkRepositoryPermissions is a
\* mutating request that the server completed.
C4_NothingModified ==
  \A c \in Started :
    calls[c].method = "checkRepositoryPermissions" =>
      \A i \in 1..Len(calls[c].resps) :
        ~(calls[c].reqs[i].method \in Mutating /\ calls[c].resps[i].ok)

CallsOf(m) == {c \in Started : calls[c].method = m}

\* A fully qualified reference starts with refs/.
FullyQualified(b) == Len(b) >= 2 /\ b[1] = "refs" /\ b[2] = "/"
RefIdFor(b) == Str(IF FullyQualified(b) THEN b ELSE <<"refs", "/", "heads", "/">> \o b)

\* C5: the ref ids createPullRequest sends for fromBranch and toBranch, and
\* those getRequiredReviewers sends for sourceBranch and targetBranch, are the
\* branch itself when it is fully qualified and refs/heads/ followed by it otherwise.
C5_RefIds ==
  /\ \A c \in CallsOf("createPullRequest") :
       /\ calls[c].reqs[1].data.fromRef.id = RefIdFor(calls[c].args.fromBranch.s)
       /\ calls[c].reqs[1].data.toRef.id = RefIdFor(calls[c].args.toBranch.s)
  /\ \A c \in CallsOf("getRequiredReviewers") :
       /\ calls[c].reqs[1].params.sourceRefId = RefIdFor(calls[c].args.sourceBranch.s)
       /\ calls[c].reqs[1].params.targetRefId = RefIdFor(calls[c].args.targetBranch.s)

\* C5 witness: getRequiredReviewers sent refs/main as it is and main as refs/heads/main.
C5_Witness ==
  \E c \in CallsOf("getRequiredReviewers") :
    /\ calls[c].args.sourceBranch.s = <<"refs", "/", "main">>
    /\ calls[c].reqs[1].params.sourceRefId.s = <<"refs", "/", "main">>
    /\ calls[c].args.targetBranch.s = <<"main">>
    /\ calls[c].reqs[1].params.targetRefId.s = <<"refs", "/", "heads", "/", "main">>

Puts(c) == {i \in 1..Len(calls[c].reqs) : calls[c].reqs[i].method = "PUT"}

\* C6: a call of updateReviewStatus first issues GET /application-properties;
\* it issues a PUT only once that lookup succeeded, and then exactly one, to
\* .../participants/<the lookup response's x-ausername> with body {status};
\* when the lookup failed it issues no PUT and rejects with the lookup's error.
C6_LookupThenPut ==
  \A c \in CallsOf("updateReviewStatus") :
    LET call == calls[c] IN
    /\ call.reqs[1].method = "GET"
    /\ call.reqs[1].url = <<"/application-properties">>
    /\ Puts(c) \subseteq {2}
    /\ Len(call.reqs) <= 2
    /\ (Len(call.resps) >= 1 /\ call.resps[1].ok) =>
         /\ Puts(c) = {2}
         /\ call.reqs[2].data = [status |-> call.args.status]
         /\ "x-ausername" \in DOMAIN call.resps[1].headers =>
              call.reqs[2].url =
                PullRequestPath(call.args) \o <<"/participants/">>
                  \o call.resps[1].headers["x-ausername"].s
    /\ (Len(call.resps) >= 1 /\ ~call.resps[1].ok) =>
         /\ Puts(c) = {}
         /\ call.pc = "done"
         /\ Threw(c, call.resps[1])

\* C6 witness: the lookup answered with user jane and the PUT went to .../participants/jane.
C6_Witness ==
  \E c \in CallsOf("updateReviewStatus") :
    /\ Len(calls[c].resps) >= 1
    /\ Prop(calls[c].resps[1].headers, "x-ausername") = Str(<<"jane">>)
    /\ calls[c].reqs[2].method = "PUT"
    /\ calls[c].reqs[2].url[Len(calls[c].reqs[2].url)] = "jane"

UserHeadersOf(cfg) ==
  IF "headers" \in DOMAIN cfg.axiosConfig THEN cfg.axiosConfig.headers ELSE EmptyObject

Bearer(cfg) == Str(<<"Bearer ">> \o cfg.token)

\* C7: every request carries Authorization: Bearer <token>, whatever headers
\* or baseURL the constructor's axiosConfig sets and whatever the request sets
\* itself; the default base URL is <baseUrl>/rest/api/latest; the user's
\* headers other than Authorization and Content-Type are in the defaults.
C7_BearerOnEveryRequest ==
  /\ client.defaults.baseURL = Str(config.baseUrl \o RestApiLatest)
  /\ \A k \in DOMAIN UserHeadersOf(config) \ {"Authorization", "Content-Type"} :
       Prop(client.defaults.headers, k) = UserHeadersOf(config)[k]
  /\ \A c \in Started : \A i \in 1..Len(calls[c].reqs) :
       Prop(calls[c].reqs[i].headers, "Authorization") = Bearer(config)

\* C7 witness: the user's axiosConfig set Authorization, X-Custom-Header and
\* baseURL, and a request with a base URL of its own carries the bearer token.
C7_Witness ==
  /\ {"Authorization", "X-Custom-Header"} \subseteq DOMAIN UserHeadersOf(config)
  /\ "baseURL" \in DOMAIN config.axiosConfig
  /\ \E c \in CallsOf("addPullRequestCommentReaction") :
       /\ calls[c].reqs[1].baseURL # client.defaults.baseURL
       /\ calls[c].reqs[1].headers["Authorization"] = Bearer(config)

PluginMethods ==
  {"addPullRequestCommentReaction", "removePullRequestCommentReaction",
   "getRequiredReviewers"}
PluginPaths == {"/comment-likes/latest", "/default-reviewers/latest"}

\* C8 as claimed: the requests to the two plugin endpoints (comment reactions,
\* default reviewers) go to a plugin path under <baseUrl>/rest, and every other
\* request goes to <baseUrl>/rest/api/latest.
C8_PluginBase ==
  \A c \in Started : \A i \in 1..Len(calls[c].reqs) :
    LET req == calls[c].reqs[i] IN
    IF calls[c].method \in PluginMethods
    THEN req.baseURL = Str(config.baseUrl \o Rest) /\ req.url[1] \in PluginPaths
    ELSE req.baseURL = Str(config.baseUrl \o RestApiLatest)

\* C10: getPullRequestDiff asks for text/plain when format is 'text' or
\* omitted and for application/json when it is 'json'; the URL ends in /diff/
\* followed by the path, or by nothing when path is empty or omitted.
C10_DiffRequest ==
  \A c \in CallsOf("getPullRequestDiff") :
    LET a == calls[c].args
        req == calls[c].reqs[1]
    IN /\ ("format" \notin DOMAIN a \/ a.format = Str(<<"text">>)) =>
            req.headers["Accept"] = Str(<<"text/plain">>)
       /\ ("format" \in DOMAIN a /\ a.format = Str(<<"json">>)) =>
            req.headers["Accept"] = Str(<<"application/json">>)
       /\ req.url = PullRequestPath(a) \o <<"/diff/">>
                      \o (IF "path" \in DOMAIN a THEN a.path.s ELSE <<>>)

\* C10 witness: format and path omitted: text/plain from the full diff endpoint.
C10_Witness ==
  \E c \in CallsOf("getPullRequestDiff") :
    /\ DOMAIN calls[c].args \cap {"format", "path"} = {}
    /\ calls[c].reqs[1].headers["Accept"] = Str(<<"text/plain">>)
    /\ calls[c].reqs[1].url[Len(calls[c].reqs[1].url)] = "/diff/"

\* The first request of method m with parameters a on a client with defaults d.
FirstRequest(m, d, a) ==
  CASE m = "getUserProfile" -> getUserProfileRequest(d, a)
    [] m = "getAllUsers" -> getAllUsersRequest(d, a)
    [] m = "listProjects" -> listProjectsRequest(d, a)
    [] m = "listRepositories" -> listRepositoriesRequest(d, a)
    [] m = "getRepository" -> getRepositoryRequest(d, a)
    [] m = "getInboxPullRequests" -> getInboxPullRequestsRequest(d, a)
    [] m = "getDashboardPullRequests" -> getDashboardPullRequestsRequest(d, a)
    [] m = "getPullRequest" -> getPullRequestRequest(d, a)
    [] m = "createPullRequest" -> createPullRequestRequest(d, a)
    [] m = "getPullRequestChanges" -> getPullRequestChangesRequest(d, a)
    [] m = "getPullRequestFileDiff" -> getPullRequestFileDiffRequest(d, a)
    [] m = "getPullRequestDiff" -> getPullRequestDiffRequest(d, a)
    [] m = "getPullRequestActivities" -> getPullRequestActivitiesRequest(d, a)
    [] m = "addPullRequestComment" -> addPullRequestCommentRequest(d, a)
    [] m = "deletePullRequestComment" -> deletePullRequestCommentRequest(d, a)
    [] m = "updateReviewStatus" -> applicationPropertiesRequest(d)
    [] m = "addPullRequestCommentReaction" -> addPullRequestCommentReactionRequest(d, a)
    [] m = "removePullRequestCommentReaction" ->
         removePullRequestCommentReactionRequest(d, a)
    [] m = "getRequiredReviewers" -> getRequiredReviewersRequest(d, a)
    [] m = "browse" -> browseRequest(d, a)
    [] m = "getRawContent" -> getRawContentRequest(d, a)
    [] OTHER -> readCheckRequest(d, a)

VoidMethods == {"deletePullRequestComment", "removePullRequestCommentReaction"}

Returned(v) == [kind |-> "return", value |-> v]
Thrown(r) == [kind |-> "throw", value |-> r]
Ran(reqs, outcome) == [reqs |-> reqs, outcome |-> outcome]

\* Method m with parameters a run by itself, from start to the point where its
\* requests have settled with resps, on a client whose defaults are d: the
\* requests it issues and its outcome so far.
RunAlone(m, a, d, resps) ==
  LET first == FirstRequest(m, d, a)
      n == Len(resps)
  IN CASE n = 0 -> Ran(<<first>>, NoOutcome)
       [] n >= 1 /\ m = "updateReviewStatus" ->
            IF ~resps[1].ok THEN Ran(<<first>>, Thrown(resps[1]))
            ELSE LET both == <<first, participantsRequest(d, a, resps[1])>>
                 IN IF n = 1 THEN Ran(both, NoOutcome)
                    ELSE IF resps[2].ok THEN Ran(both, Returned(resps[2].data))
                    ELSE Ran(both, Thrown(resps[2]))
       [] n >= 1 /\ m = "checkRepositoryPermissions" ->
            IF ~resps[1].ok THEN Ran(<<first>>, Returned(Permissions(FALSE, FALSE)))
            ELSE LET both == <<first, writeProbeRequest(d, a)>>
                 IN IF n = 1 THEN Ran(both, NoOutcome)
                    ELSE IF resps[2].ok THEN Ran(both, Returned(Permissions(TRUE, TRUE)))
                    ELSE Ran(both, Returned(Permissions(TRUE, WriteFromError(resps[2]))))
       [] OTHER ->
            IF ~resps[1].ok THEN Ran(<<first>>, Thrown(resps[1]))
            ELSE IF m \in VoidMethods THEN Ran(<<first>>, Returned(Undefined))
            ELSE Ran(<<first>>, Returned(resps[1].data))

\* C9: in every interleaving of the calls on one client, each call has issued
\* the requests and has the outcome that the same call has when run alone on the
\* client as constructed, given the same responses; and the client's stored
\* configuration is what the constructor made it.
C9_CallsIndependent ==
  /\ client = Constructor(config)
  /\ \A c \in Started :
       Ran(calls[c].reqs, calls[c].outcome) =
         RunAlone(calls[c].method, calls[c].args, Constructor(config).defaults,
                  calls[c].resps)

\* C9 witness: two calls are in flight at once: a reaction call (with a base
\* URL of its own) awaits its request while a call of updateReviewStatus,
\* past its lookup, awaits its PUT.
C9_Witness ==
  \E c1, c2 \in Started :
    /\ calls[c1].method = "addPullRequestCommentReaction"
    /\ calls[c1].pc = "await"
    /\ calls[c2].method = "updateReviewStatus"
    /\ calls[c2].pc = "await"
    /\ Len(calls[c2].reqs) = 2

\* C11: the body of createPullRequest has fromRef.repository exactly when a
\* (non-empty) fromRepositorySlug is given, with that slug and with project key
\* fromProjectKey when a (non-empty) one is given and the target projectKey
\* otherwise; without it fromRef has only id; toRef has only id.
C11_CrossRepoBody ==
  \A c \in CallsOf("createPullRequest") :
    LET a == calls[c].args
        body == calls[c].reqs[1].data
    IN /\ DOMAIN body.toRef = {"id"}
       /\ IF Truthy(Prop(a, "fromRepositorySlug"))
          THEN /\ DOMAIN body.fromRef = {"id", "repository"}
               /\ body.fromRef.repository.slug = a.fromRepositorySlug
               /\ body.fromRef.repository.project.key =
                    (IF Truthy(Prop(a, "fromProjectKey")) THEN a.fromProjectKey
                     ELSE a.projectKey)
          ELSE DOMAIN body.fromRef = {"id"}

\* C11 witness: fromRepositorySlug and fromProjectKey given: the body names the
\* fork in the given project.
C11_Witness ==
  \E c \in CallsOf("createPullRequest") :
    /\ Prop(calls[c].args, "fromRepositorySlug") = Str(<<"my-fork">>)
    /\ Prop(calls[c].args, "fromProjectKey") = Str(<<"MYPROJ">>)
    /\ calls[c].reqs[1].data.fromRef.repository.project.key = Str(<<"MYPROJ">>)

\* The optional query parameters method m takes from its parameter object a.
QueryParameters(m, a) ==
  CASE m \in {"listProjects", "getInboxPullRequests"} -> DOMAIN ObjectOrEmpty(a)
    [] m = "getPullRequestActivities" ->
         DOMAIN a \ {"projectKey", "repositorySlug", "pullRequestId"}
    [] m = "getPullRequestChanges" -> {"limit"}
    [] m = "getPullRequestFileDiff" -> {"contextLines"}
    [] m = "getPullRequestDiff" -> {"sinceId", "untilId", "contextLines", "whitespace"}
    [] m = "browse" -> {"at", "limit", "start"}
    [] OTHER -> {}

PassThroughMethods ==
  {"listProjects", "getInboxPullRequests", "getPullRequestActivities",
   "getPullRequestChanges", "getPullRequestFileDiff", "getPullRequestDiff", "browse"}

\* The query parameters the caller supplied with a defined value.
Supplied(m, a) ==
  {k \in QueryParameters(m, a) : Prop(ObjectOrEmpty(a), k) # Undefined}

\* C12: the query of the request of a pass-through method has exactly the
\* optional query parameters the caller supplied with a defined value, each with
\* the supplied value.
C12_QueryPassThrough ==
  \A c \in Started :
    calls[c].method \in PassThroughMethods =>
      LET a == calls[c].args
          query == Query(calls[c].reqs[1])
      IN /\ DOMAIN query = Supplied(calls[c].method, a)
         /\ \A k \in DOMAIN query : query[k] = a[k]

PermissionCalls == CallsOf("checkRepositoryPermissions")
IsReadCheck(c, req) == req.method = "GET" /\ req.url = RepoPath(calls[c].args)
ReadCheckFailed(c) == Len(calls[c].resps) >= 1 /\ ~calls[c].resps[1].ok

\* C13: checkRepositoryPermissions first issues the read check; it issues the
\* write probe (POST .../branches) only as its second request and only after the
\* read check succeeded; when the read check failed, for whatever reason, the
\* call is over with {read: false, write: false} and its only request is the GET.
C13_ProbeOnlyAfterRead ==
  \A c \in PermissionCalls :
    /\ IsReadCheck(c, calls[c].reqs[1])
    /\ \A i \in 1..Len(calls[c].reqs) :
         calls[c].reqs[i].method = "POST" =>
           /\ i = 2
           /\ calls[c].reqs[i].url = RepoPath(calls[c].args) \o <<"/branches">>
           /\ Len(calls[c].resps) >= 1
           /\ calls[c].resps[1].ok
    /\ ReadCheckFailed(c) =>
         /\ calls[c].pc = "done"
         /\ calls[c].outcome = [kind |-> "return", value |-> [read |-> FALSE, write |-> FALSE]]
         /\ Len(calls[c].reqs) = 1

\* C13 witness: the read check failed with a server error and the call returned
\* {read: false, write: false} after its single GET.
C13_Witness ==
  \E c \in PermissionCalls :
    /\ ReadCheckFailed(c)
    /\ calls[c].resps[1] # NetworkError
    /\ calls[c].pc = "done"
    /\ Len(calls[c].reqs) = 1

C17_WriteImpliesRead ==
  \A c \in PermissionCalls :
    calls[c].outcome.kind = "return" =>
      (calls[c].outcome.value.write => calls[c].outcome.value.read)

\* C17 witness: a probe rejected for its missing branch name gave
\* {read: true, write: true}.
C17_Witness ==
  \E c \in PermissionCalls :
    /\ Len(calls[c].resps) = 2
    /\ ~calls[c].resps[2].ok
    /\ calls[c].outcome = [kind |-> "return", value |-> [read |-> TRUE, write |-> TRUE]]

DashboardDefault(k) ==
  CASE k = "role" -> Str(<<"AUTHOR">>)
    [] k = "state" -> Str(<<"OPEN">>)
    [] k = "order" -> Str(<<"NEWEST">>)

Given(a, k) == IF k = "line" THEN Prop(a, k) # Undefined ELSE Truthy(Prop(a, k))

\* C15: the body of addPullRequestComment always has text; it has parent
\* {id: parentId} exactly when a parentId is given; it has anchor exactly when a
\* path is given, and that anchor has the path, diffType EFFECTIVE and exactly
\* those of line, lineType and fileType that are given; the body has nothing
\* else, so line, lineType and fileType without path are not sent.
C15_CommentBody ==
  \A c \in CallsOf("addPullRequestComment") :
    LET a == calls[c].args
        body == calls[c].reqs[1].data
    IN /\ DOMAIN body = {"text"} \cup (IF Given(a, "parentId") THEN {"parent"} ELSE {})
                                 \cup (IF Given(a, "path") THEN {"anchor"} ELSE {})
       /\ body.text = a.text
       /\ Given(a, "parentId") => body.parent = [id |-> a.parentId]
       /\ Given(a, "path") =>
            /\ DOMAIN body.anchor =
                 {"path", "diffType"} \cup
                 {k \in {"line", "lineType", "fileType"} : Given(a, k)}
            /\ body.anchor.diffType = Str(<<"EFFECTIVE">>)
            /\ \A k \in DOMAIN body.anchor \ {"diffType"} : body.anchor[k] = a[k]

\* C15 witness: a reply anchored at line 0 of a file, with a line type and no
\* file type.
C15_Witness ==
  \E c \in CallsOf("addPullRequestComment") :
    /\ DOMAIN calls[c].reqs[1].data = {"text", "parent", "anchor"}
    /\ calls[c].reqs[1].data.anchor =
         [path |-> Str(<<"src/index.ts">>), diffType |-> Str(<<"EFFECTIVE">>),
          line |-> Num("0"), lineType |-> Str(<<"ADDED">>)]

\* C15 witness of the last clause: line, lineType and fileType given without a
\* path, and the body is the text alone.
C15_WitnessNoPath ==
  \E c \in CallsOf("addPullRequestComment") :
    /\ {"line", "lineType", "fileType"} \subseteq DOMAIN calls[c].args
    /\ "path" \notin DOMAIN calls[c].args
    /\ DOMAIN calls[c].reqs[1].data = {"text"}

====
